---- MODULE Spec2Model ----
(***************************************************************************)
(* A model of xd/lib/bittorrent/swarm/torrent.go: the per-piece block      *)
(* progress tracker (cachedPiece) and the swarm coordinator (Torrent).     *)
(*                                                                         *)
(* Specifications:                                                         *)
(*   SpecPiece    one caller issuing nextOffset / put / cancel calls, each *)
(*                call a single step (the sequential contract of the type);*)
(*   SpecPut      a fresh piece that only receives put calls;              *)
(*   SpecConc     several tasks inside nextOffset at once, statement by    *)
(*                statement, with an unlocked put running beside them;     *)
(*   SpecTorrent  pollAnnounce's concurrent Announce tasks and the         *)
(*                PersistPeer tasks they start;                            *)
(*   SpecSerial   Announce calls made one after another, and FairSerial,   *)
(*                the same with every PersistPeer task kept running;       *)
(*   SpecRun      Run, Close and the onPieceRequest calls of the peer      *)
(*                tasks around the channel t.piece, and FairRun, the same  *)
(*                with every task scheduled;                               *)
(*   SpecStore    whole calls of markPieceInProgress, cancelPiece and      *)
(*                storePiece on the PendingSet.                            *)
(***************************************************************************)
EXTENDS Integers, Sequences, FiniteSets, TLC

(***************************************************************************)
(* Bounds of the model.                                                    *)
(***************************************************************************)
\* The code's BlockSize is 1024 * 16 (torrent.go:19); the model keeps the
\* stride structure and scales the stride down to a few bytes.
BlockSize == 2
\* The longest status array is MaxBlocks strides long.
MaxBlocks == 2
\* Tasks that call nextOffset concurrently in SpecConc.
NumTasks == 2

\* Trackers of the torrent (Torrent.Trackers).
NumTrackers == 2
\* Remote peer addresses the trackers may return.
NumPeers == 1
\* Candidates in one tracker response.
MaxResp == 2
\* PersistPeer tasks the model lets run at once or after one another.
MaxPersist == 2

\* Peer connections whose read loops call onPieceRequest.
NumConns == 2
\* The largest capacity the channel of Torrent.piece is made with.
ChanCap == 1
\* onPieceRequest calls the model follows.
MaxEvents == 3
\* Piece indices of the torrent's PendingSet.
NumPieces == 2

MaxLen == MaxBlocks * BlockSize

Trackers == 1 .. NumTrackers
\* t.Net.Addr(), the local address, and the remote addresses
LocalAddr == 0
Addrs == 0 .. NumPeers
PersistIds == 1 .. MaxPersist
\* the peer connections (*PeerConn), each with the task of its read loop
Conns == 1 .. NumConns

(***************************************************************************)
(* Program constants.                                                      *)
(***************************************************************************)
Missing == 0
Pending == 1
Obtained == 2

Status == {Missing, Pending, Obtained}

(***************************************************************************)
(* uint32 values, kept at their full width as <<high half, low half>>,     *)
(* each half in 0 .. 2^16 - 1, so that offset + length wraps modulo 2^32   *)
(* exactly as the code's unsigned addition does.                           *)
(***************************************************************************)
Half == 2 ^ 16

U32(n) == <<n \div Half, n % Half>>

\* uint32 addition, wrapping modulo 2^32
Add32(a, b) ==
    LET lo == a[2] + b[2]
        hi == a[1] + b[1] + (lo \div Half)
    IN  <<hi % Half, lo % Half>>

\* uint32 decrement (length--), never applied to zero by the code
Dec32(a) == IF a[2] > 0 THEN <<a[1], a[2] - 1>> ELSE <<a[1] - 1, Half - 1>>

Leq32(a, b) == a[1] < b[1] \/ (a[1] = b[1] /\ a[2] <= b[2])

IsZero32(a) == a[1] = 0 /\ a[2] = 0

Lt32(a, b) == Leq32(a, b) /\ a # b

\* a - b modulo 2^32
Sub32(a, b) ==
    LET lo == a[2] - b[2] + Half
        hi == a[1] - b[1] + Half - (IF lo < Half THEN 1 ELSE 0)
    IN  <<hi % Half, lo % Half>>

\* the largest uint32, 2^32 - 1, less k
Max32Less(k) == <<Half - 1, Half - 1 - k>>

\* the run-time checks of a uint32 used as an index (a[x]) or as a slice
\* bound (a[x:]) of an array of length l
IndexOk(a, l) == a[1] = 0 /\ a[2] < l
SliceOk(a, l) == a[1] = 0 /\ a[2] <= l

VARIABLES
    progress,   \* cachedPiece.progress: [0 .. l-1 -> Status]
    data,       \* cachedPiece.piece.Data: [0 .. l-1 -> byte]
    fault,      \* "none", or the run-time panic that ended the program
    op,         \* the call that made the last step: its name
    ret,        \* what the last completed nextOffset returned: [has, idx, claimed]
    arg,        \* SpecPut: the arguments of the last put: [off, n]
    written,    \* SpecPut: the byte indices covered by in-bounds put calls
    covered,    \* SpecPiece: the byte indices in the range of the last cancel
    lastCancel, \* SpecPiece: the stride the previous call cancelled, or -1
    reclaim,    \* SpecPiece: lastCancel as it was before the last nextOffset
    lastAdd,    \* SpecSerial: the last AddPeer call: [task, res]
    mtx,        \* SpecConc: the task holding cachedPiece.mtx, or 0
    tpc,        \* SpecConc: each task's position inside nextOffset
    tidx,       \* SpecConc: each task's idx
    ti,         \* SpecConc: each task's i
    claims,     \* SpecConc: per offset, the tasks whose calls claimed it, in order
    wr,         \* SpecConc: the unlocked put in progress: [pc, off, n, k]
    conns,      \* Torrent.conns: per address "absent", "false" or "true"
    completed,  \* Torrent.Done(): the storage's bitfield is complete
    ann,        \* per tracker, the Announce task pollAnnounce started for it
    pp,         \* the PersistPeer tasks, in the order they were started
    seen,       \* the resolved addresses that trackers have returned
    piece,      \* Torrent.piece, the channel field: "nil" or "chan"
    chn,        \* the channel made for Torrent.piece: [cap, closed, buf, sendq]
    peer,       \* per peer connection, its task inside onPieceRequest
    run,        \* the task inside Run: [pc, ev]
    closer,     \* the task inside Close: its position
    nreq,       \* SpecRun: the onPieceRequest calls made so far
    accepted,   \* SpecRun: the events the channel accepted, in order
    serviced,   \* SpecRun: the events Run serviced, in order
    last,       \* SpecRun: what Run's last service did
    pending,    \* Torrent.pending: per piece index 0 (absent) or a connection
    held,       \* the piece indices storage holds
    stlog       \* SpecStore: the last call and the storage calls it made

pieceVars == <<progress, data, fault, op, ret>>
ghostVars == <<arg, written, covered, lastCancel, reclaim, lastAdd>>
concVars == <<mtx, tpc, tidx, ti, claims, wr>>
torrentVars == <<conns, completed, ann, pp, seen>>
runVars == <<piece, chn, peer, run, closer, nreq, accepted, serviced, last>>
storeVars == <<pending, held, stlog>>
eventVars == <<runVars, storeVars>>
vars == <<pieceVars, ghostVars, concVars, torrentVars, eventVars>>

len(p) == Cardinality(DOMAIN p)

Tasks == 1 .. NumTasks

(***************************************************************************)
(* cachedPiece.nextOffset, one whole call.                                 *)
(***************************************************************************)
RECURSIVE MarkPending(_, _, _)
\* for i < BlockSize { p.progress[idx+i] = Pending; i++ }
\* An index at or beyond len(p.progress) panics, with the earlier bytes
\* of the stride already written.
MarkPending(p, idx, i) ==
    IF i < BlockSize
    THEN IF idx + i < len(p)
         THEN MarkPending([p EXCEPT ![idx + i] = Pending], idx, i + 1)
         ELSE [progress |-> p, fault |-> "nextOffset: index out of range"]
    ELSE [progress |-> p, fault |-> "none"]

RECURSIVE Scan(_, _)
\* for idx < l { if p.progress[idx] == Missing { mark; return }; idx += BlockSize }
\* if idx < l { has = true }; return
Scan(p, idx) ==
    IF idx < len(p)
    THEN IF p[idx] = Missing
         THEN LET m == MarkPending(p, idx, 0)
              IN  [progress |-> m.progress, fault |-> m.fault,
                   has |-> FALSE, idx |-> idx, claimed |-> TRUE]
         ELSE Scan(p, idx + BlockSize)
    ELSE [progress |-> p, fault |-> "none",
          has |-> (idx < len(p)), idx |-> idx, claimed |-> FALSE]

nextOffset(p) == Scan(p, 0)

(***************************************************************************)
(* cachedPiece.done                                                        *)
(***************************************************************************)
done(p) == ~ \E i \in DOMAIN p : p[i] # Obtained

(***************************************************************************)
(* cachedPiece.put(offset, data): offset a uint32, bytes the data.         *)
(***************************************************************************)
\* the marking loop stopping one byte short of the data
putProgressShort(p, off, n) ==
    [i \in DOMAIN p |-> IF off <= i /\ i < off + n - 1 THEN Obtained ELSE p[i]]

\* for idx := range data { p.progress[uint32(idx)+offset] = Obtained }
putProgress(p, off, n) ==
    [i \in DOMAIN p |-> IF off <= i /\ i < off + n THEN Obtained ELSE p[i]]

\* copy(p.piece.Data[offset:], data)
putData(d, off, bytes) ==
    [i \in DOMAIN d |->
        IF off <= i /\ i < off + len(bytes) THEN bytes[i - off + 1] ELSE d[i]]

put(p, d, off, bytes) ==
    IF Leq32(Add32(off, U32(len(bytes))), U32(len(p)))
    THEN IF SliceOk(off, len(d))
         THEN [progress |-> putProgress(p, off[2], len(bytes)),
               data |-> putData(d, off[2], bytes), fault |-> "none"]
         ELSE [progress |-> p, data |-> d,
               fault |-> "put: slice bounds out of range"]
    ELSE [progress |-> p, data |-> d, fault |-> "none"]

(***************************************************************************)
(* cachedPiece.cancel(offset, length), both uint32.                        *)
(***************************************************************************)
RECURSIVE cancelLoopLate(_, _, _)
\* the loop decrementing length after the write instead of before it
cancelLoopLate(p, off, length) ==
    IF IsZero32(length)
    THEN [progress |-> p, fault |-> "none"]
    ELSE LET at == Add32(off, length)
         IN  IF IndexOk(at, len(p))
             THEN cancelLoopLate([p EXCEPT ![at[2]] = Missing], off, Dec32(length))
             ELSE [progress |-> p, fault |-> "cancel: index out of range"]

RECURSIVE cancelLoop(_, _, _)
\* for length > 0 { length--; p.progress[offset+length] = Missing }
cancelLoop(p, off, length) ==
    IF IsZero32(length)
    THEN [progress |-> p, fault |-> "none"]
    ELSE LET len1 == Dec32(length)
             at == Add32(off, len1)
         IN  IF IndexOk(at, len(p))
             THEN cancelLoop([p EXCEPT ![at[2]] = Missing], off, len1)
             ELSE [progress |-> p, fault |-> "cancel: index out of range"]

cancel(p, off, length) ==
    IF Leq32(Add32(off, length), U32(len(p)))
    THEN cancelLoop(p, off, length)
    ELSE [progress |-> p, fault |-> "none"]

(***************************************************************************)
(* The inputs the callers draw from.                                       *)
(***************************************************************************)
\* offsets inside the array, at its end, and at the top of the uint32 range
Offsets32 == {U32(n) : n \in 0 .. MaxLen} \cup {Max32Less(0)}
\* the data of a put: nothing, one byte, a whole stride
DataInputs == {[i \in 1 .. n |-> 1] : n \in {0, 1, BlockSize}}
\* the length of a cancel
Lengths32 == {U32(n) : n \in {0, 1, BlockSize}} \cup {Max32Less(0)}

\* the piece as it is constructed: l bytes, all Missing, an l-byte buffer
FreshPiece(l) ==
    /\ progress = [i \in 0 .. l - 1 |-> Missing]
    /\ data = [i \in 0 .. l - 1 |-> 0]
    /\ fault = "none"
    /\ op = "none"
    /\ ret = [has |-> FALSE, idx |-> 0, claimed |-> FALSE]

NoArg == [off |-> U32(0), n |-> 0]

\* a nil error
Nil == "nil"
\* no AddPeer call yet
NoAdd == [err |-> Nil, opened |-> FALSE, closed |-> FALSE,
          mark |-> FALSE, at |-> "none"]

NoGhost ==
    /\ arg = NoArg
    /\ written = {}
    /\ covered = {}
    /\ lastCancel = -1
    /\ reclaim = -1
    /\ lastAdd = [task |-> 0, res |-> NoAdd]

\* the torrent as it is constructed: no connection known, no task running
NoTorrent ==
    /\ conns = [a \in Addrs |-> "absent"]
    /\ completed = FALSE
    /\ ann = [tr \in Trackers |-> [pc |-> "idle", k |-> 0, a |-> LocalAddr]]
    /\ pp = <<>>
    /\ seen = {}

\* no event, the zero pieceEvent
NoEvent == [n |-> 0, c |-> 0, r |-> [Index |-> U32(0), Begin |-> U32(0), Length |-> U32(0)]]
\* Run has serviced nothing yet
NoService == [n |-> 0, c |-> 0, got |-> FALSE, closed |-> {}, sent |-> <<>>]
PieceIdx == {U32(n) : n \in 0 .. NumPieces - 1}

\* the channel, the PendingSet and the tasks around them as they are when
\* the torrent is constructed: an open, empty channel of capacity cp in
\* t.piece, nothing pending, Run at the head of its loop
FreshEvents(cp, h) ==
    /\ piece = "chan"
    /\ chn = [cap |-> cp, closed |-> FALSE, buf |-> <<>>, sendq |-> <<>>]
    /\ peer = [c \in Conns |-> [pc |-> "idle", ev |-> NoEvent]]
    /\ run = [pc |-> "loop", ev |-> NoEvent]
    /\ closer = [pc |-> "idle", chnl |-> "nil"]
    /\ nreq = 0
    /\ accepted = <<>>
    /\ serviced = <<>>
    /\ last = NoService
    /\ pending = [i \in PieceIdx |-> 0]
    /\ held = h
    /\ stlog = [idx |-> U32(0), err |-> Nil, was |-> 0, ops |-> <<>>]

NoEvents == FreshEvents(0, {})

NoConc ==
    /\ mtx = 0
    /\ tpc = [t \in Tasks |-> "idle"]
    /\ tidx = [t \in Tasks |-> 0]
    /\ ti = [t \in Tasks |-> 0]
    /\ claims = [s \in {} |-> <<>>]
    /\ wr = [pc |-> "idle", off |-> 0, n |-> 0, k |-> 0]

(***************************************************************************)
(* Whole calls on one cachedPiece.  A panic ends the program.              *)
(***************************************************************************)
CallNextOffset ==
    /\ fault = "none"
    /\ LET r == nextOffset(progress)
       IN  /\ progress' = r.progress
           /\ fault' = r.fault
           /\ ret' = IF r.fault = "none"
                     THEN [has |-> r.has, idx |-> r.idx, claimed |-> r.claimed]
                     ELSE ret
    /\ op' = "nextOffset"
    /\ UNCHANGED data

CallPut(off, bytes) ==
    /\ fault = "none"
    /\ LET r == put(progress, data, off, bytes)
       IN  /\ progress' = r.progress
           /\ data' = r.data
           /\ fault' = r.fault
    /\ op' = "put"
    /\ UNCHANGED ret

CallCancel(off, length) ==
    /\ fault = "none"
    /\ LET r == cancel(progress, off, length)
       IN  /\ progress' = r.progress
           /\ fault' = r.fault
    /\ op' = "cancel"
    /\ UNCHANGED <<data, ret>>

(***************************************************************************)
(* SpecPiece: any sequence of nextOffset, put and cancel calls.            *)
(***************************************************************************)
\* the strides of an array: the offsets the scan of nextOffset visits
Strides(p) == {s \in DOMAIN p : s % BlockSize = 0}
StrideBytes(p, s) == {i \in DOMAIN p : s <= i /\ i < s + BlockSize}

\* the byte indices among off, off + 1, ..., off + length - 1 (modulo 2^32)
RangeBytes(p, off, length) ==
    {i \in DOMAIN p : Lt32(Sub32(U32(i), off), length)}

\* cancel(off, BlockSize) of a whole stride inside the array, none of whose
\* bytes is Missing (it was claimed by nextOffset or written by put)
CancelsClaimedStride(p, off, length) ==
    /\ length = U32(BlockSize)
    /\ off[1] = 0 /\ off[2] % BlockSize = 0 /\ off[2] + BlockSize <= len(p)
    /\ \A i \in StrideBytes(p, off[2]) : p[i] # Missing

PieceNextOffset ==
    /\ CallNextOffset
    /\ reclaim' = lastCancel
    /\ lastCancel' = -1
    /\ covered' = {}
    /\ UNCHANGED <<lastAdd, arg, written, concVars, torrentVars, eventVars>>

PiecePut ==
    \E off \in Offsets32, bytes \in DataInputs :
        /\ CallPut(off, bytes)
        /\ lastCancel' = -1 /\ reclaim' = -1 /\ covered' = {}
        /\ UNCHANGED <<lastAdd, arg, written, concVars, torrentVars, eventVars>>

PieceCancel ==
    \E off \in Offsets32, length \in Lengths32 :
        /\ CallCancel(off, length)
        /\ lastCancel' = IF CancelsClaimedStride(progress, off, length)
                         THEN off[2] ELSE -1
        /\ reclaim' = -1
        /\ covered' = RangeBytes(progress, off, length)
        /\ UNCHANGED <<lastAdd, arg, written, concVars, torrentVars, eventVars>>

InitPiece ==
    /\ \E l \in 0 .. MaxLen : FreshPiece(l)
    /\ NoGhost /\ NoConc /\ NoTorrent /\ NoEvents

NextPiece == PieceNextOffset \/ PiecePut \/ PieceCancel

SpecPiece == InitPiece /\ [][NextPiece]_vars

(***************************************************************************)
(* SpecPut: a fresh piece that receives put calls only; written is the     *)
(* union of the ranges of the calls whose range lies inside the array.     *)
(***************************************************************************)
\* the true, unwrapped offset + n <= l
InBounds(off, n, l) == off[1] = 0 /\ off[2] + n <= l

PutOnly ==
    \E off \in Offsets32 \cup {U32(MaxLen + 1)}, bytes \in DataInputs :
        /\ CallPut(off, bytes)
        /\ arg' = [off |-> off, n |-> len(bytes)]
        /\ written' = IF InBounds(off, len(bytes), len(progress))
                      THEN written \cup {i \in DOMAIN progress :
                                off[2] <= i /\ i < off[2] + len(bytes)}
                      ELSE written
        /\ UNCHANGED <<covered, lastCancel, reclaim, lastAdd, concVars, torrentVars, eventVars>>

NextPut == PutOnly

SpecPut == InitPiece /\ [][NextPut]_vars

(***************************************************************************)
(* SpecConc: NumTasks tasks call nextOffset again and again, one statement *)
(* a step, under cachedPiece.mtx; beside them one task runs put calls,     *)
(* which take no lock, one byte of the status array a step.                *)
(***************************************************************************)
\* p.mtx.Lock(): waits until no task holds the mutex
mtxLockNoExclusion(t) == mtx' = t

mtxLock(t) == mtx = 0 /\ mtx' = t

\* p.mtx.Lock(); defer p.mtx.Unlock(); l := ...; idx is the zero result
TaskLock(t) ==
    /\ fault = "none"
    /\ tpc[t] = "idle"
    /\ mtxLock(t)
    /\ tpc' = [tpc EXCEPT ![t] = "loop"]
    /\ tidx' = [tidx EXCEPT ![t] = 0]
    /\ ti' = [ti EXCEPT ![t] = 0]
    /\ UNCHANGED <<pieceVars, ghostVars, torrentVars, eventVars, claims, wr>>

\* for idx < l { if p.progress[idx] == Missing {...}; idx += BlockSize }
TaskLoop(t) ==
    /\ fault = "none"
    /\ tpc[t] = "loop"
    /\ IF tidx[t] < len(progress)
       THEN IF progress[tidx[t]] = Missing
            THEN /\ tpc' = [tpc EXCEPT ![t] = "mark"]
                 /\ ti' = [ti EXCEPT ![t] = 0]
                 /\ UNCHANGED tidx
            ELSE /\ tidx' = [tidx EXCEPT ![t] = tidx[t] + BlockSize]
                 /\ UNCHANGED <<tpc, ti>>
       ELSE /\ tpc' = [tpc EXCEPT ![t] = "return"]
            /\ UNCHANGED <<tidx, ti>>
    /\ UNCHANGED <<pieceVars, ghostVars, torrentVars, eventVars, mtx, claims, wr>>

\* for i < BlockSize { p.progress[idx+i] = Pending; i++ }; return
TaskMark(t) ==
    /\ fault = "none"
    /\ tpc[t] = "mark"
    /\ IF ti[t] < BlockSize
       THEN IF tidx[t] + ti[t] < len(progress)
            THEN /\ progress' = [progress EXCEPT ![tidx[t] + ti[t]] = Pending]
                 /\ ti' = [ti EXCEPT ![t] = ti[t] + 1]
                 /\ UNCHANGED <<fault, tpc>>
            ELSE /\ fault' = "nextOffset: index out of range"
                 /\ UNCHANGED <<progress, ti, tpc>>
       ELSE /\ tpc' = [tpc EXCEPT ![t] = "claimed"]
            /\ UNCHANGED <<progress, fault, ti>>
    /\ UNCHANGED <<data, op, ret, ghostVars, torrentVars, eventVars, mtx, tidx, claims, wr>>

\* the deferred p.mtx.Unlock() and the return of idx to the caller; claims
\* records the offset a claiming call returns and the task it returns it to
TaskReturn(t) ==
    /\ fault = "none"
    /\ tpc[t] \in {"return", "claimed"}
    /\ mtx' = IF mtx = t THEN 0 ELSE mtx
    /\ claims' = IF tpc[t] = "claimed"
                 THEN [claims EXCEPT ![tidx[t]] = Append(claims[tidx[t]], t)]
                 ELSE claims
    /\ tpc' = [tpc EXCEPT ![t] = "idle"]
    /\ tidx' = [tidx EXCEPT ![t] = 0]
    /\ ti' = [ti EXCEPT ![t] = 0]
    /\ UNCHANGED <<pieceVars, ghostVars, torrentVars, eventVars, wr>>

\* put(offset, data) up to the end of copy(p.piece.Data[offset:], data),
\* for a range inside the array
WriterStart ==
    /\ fault = "none"
    /\ wr.pc = "idle"
    /\ \E off \in 0 .. len(progress), bytes \in DataInputs :
        /\ Leq32(Add32(U32(off), U32(len(bytes))), U32(len(progress)))
        /\ len(bytes) > 0
        /\ data' = putData(data, off, bytes)
        /\ wr' = [pc |-> "mark", off |-> off, n |-> len(bytes), k |-> 0]
    /\ UNCHANGED <<progress, fault, op, ret, ghostVars, torrentVars, eventVars, mtx, tpc, tidx, ti, claims>>

\* for idx := range data { p.progress[uint32(idx)+offset] = Obtained }
WriterMark ==
    /\ fault = "none"
    /\ wr.pc = "mark"
    /\ progress' = [progress EXCEPT ![wr.off + wr.k] = Obtained]
    /\ wr' = IF wr.k + 1 < wr.n
             THEN [wr EXCEPT !.k = wr.k + 1]
             ELSE [pc |-> "idle", off |-> 0, n |-> 0, k |-> 0]
    /\ UNCHANGED <<data, fault, op, ret, ghostVars, torrentVars, eventVars, mtx, tpc, tidx, ti, claims>>

InitConc ==
    /\ FreshPiece(MaxLen)
    /\ NoGhost /\ NoTorrent /\ NoEvents
    /\ mtx = 0
    /\ tpc = [t \in Tasks |-> "idle"]
    /\ tidx = [t \in Tasks |-> 0]
    /\ ti = [t \in Tasks |-> 0]
    /\ claims = [s \in Strides(progress) |-> <<>>]
    /\ wr = [pc |-> "idle", off |-> 0, n |-> 0, k |-> 0]

NextConc ==
    \/ \E t \in Tasks : TaskLock(t)
    \/ \E t \in Tasks : TaskLoop(t)
    \/ \E t \in Tasks : TaskMark(t)
    \/ \E t \in Tasks : TaskReturn(t)
    \/ WriterStart
    \/ WriterMark

SpecConc == InitConc /\ [][NextConc]_vars

(***************************************************************************)
(* Claims about cachedPiece.                                               *)
(***************************************************************************)
\* C1: with several tasks inside nextOffset at once and no cancel, no two
\* calls that claimed a stride return the same offset.
C1_NoStrideClaimedTwice ==
    \A s \in DOMAIN claims : Len(claims[s]) <= 1

\* every stride is claimed once, by calls of two different tasks
C1_Witness ==
    /\ \A s \in DOMAIN claims : Len(claims[s]) = 1
    /\ \E s, u \in DOMAIN claims : claims[s] # claims[u]

\* the first stride whose first byte is Missing, or -1
FirstMissingStride(p) ==
    IF \E s \in Strides(p) : p[s] = Missing
    THEN CHOOSE s \in Strides(p) :
            /\ p[s] = Missing
            /\ \A e \in Strides(p) : e < s => p[e] # Missing
    ELSE -1

\* C2: on an array whose length is a multiple of the block size, nextOffset
\* returns hasMore = true with the offset of the first stride whose first
\* byte is Missing and marks that whole stride Pending; with no such stride
\* it returns hasMore = false and leaves the array unchanged.
C2_NextOffsetContract ==
    [][ (op' = "nextOffset" /\ len(progress) % BlockSize = 0) =>
            LET s == FirstMissingStride(progress)
            IN  IF s >= 0
                THEN /\ fault' = "none"
                     /\ ret'.has = TRUE
                     /\ ret'.idx = s
                     /\ \A i \in StrideBytes(progress, s) : progress'[i] = Pending
                ELSE /\ ret'.has = FALSE
                     /\ progress' = progress ]_vars

\* C3: a put whose true offset + len(data) exceeds the array length leaves
\* the status array and the piece buffer unchanged and does not fault, also
\* when the uint32 sum wraps to a value not greater than the array length.
C3_PutOutOfRangeIsNoOp ==
    [][ (op' = "put" /\ ~InBounds(arg'.off, arg'.n, len(progress))) =>
            (progress' = progress /\ data' = data /\ fault' = "none") ]_vars

\* C4: an Obtained byte changes status only by a cancel whose range
\* contains it; nextOffset never turns an Obtained byte Pending.
C4_ObtainedOnlyRevertedByCancel ==
    [][ \A i \in DOMAIN progress :
            (progress[i] = Obtained /\ progress'[i] # Obtained) =>
                (op' = "cancel" /\ i \in covered') ]_vars

\* C5: after any sequence of put calls on a fresh piece, done() is true
\* iff the in-bounds written ranges cover every byte of the piece.
C5_DoneIffAllWritten ==
    done(progress) <=> (written = DOMAIN progress)

\* a piece of the longest length completed by put calls
C5_Witness ==
    /\ op = "put"
    /\ len(progress) = MaxLen
    /\ written = DOMAIN progress
    /\ done(progress)

NoEarlierMissing(p, s) == \A e \in Strides(p) : e < s => p[e] # Missing

\* C6: after cancel(offset, BlockSize) of a claimed or written stride, with
\* no earlier stride Missing, the next nextOffset returns that offset and
\* marks the stride Pending again.
C6_CancelThenReclaim ==
    [][ (lastCancel >= 0 /\ op' = "nextOffset"
            /\ NoEarlierMissing(progress, lastCancel)) =>
            /\ fault' = "none"
            /\ ret'.claimed
            /\ ret'.idx = lastCancel
            /\ \A i \in StrideBytes(progress, lastCancel) :
                    progress'[i] = Pending ]_vars

\* a stride after the first was cancelled and the next call claimed it again
C6_Witness ==
    /\ op = "nextOffset"
    /\ reclaim > 0
    /\ ret.claimed
    /\ ret.idx = reclaim
    /\ \A i \in StrideBytes(progress, reclaim) : progress[i] = Pending

(***************************************************************************)
(* Torrent: tracker announces, the ConnectionSet and peer admission.       *)
(*                                                                         *)
(* t.cmtx is held for one map access at a time, so each locked access is   *)
(* one step.  AddPeer reads no shared state and writes t.conns once, at    *)
(* its end, so a whole AddPeer call is one step, taken when it returns.    *)
(* StartAnnouncing's "started" announces call Announce one after another:  *)
(* they are the runs in which one Announce task is active at a time.       *)
(***************************************************************************)
\* triesLeft := 10
MaxTries == 10
\* AddPeer calls of one PersistPeer task that the model follows
AttemptCap == 12

LocalInfohash == "infohash"
Unresolved == -1

\* what Dial, Send and Recv return and the infohash the peer sent back
AddPeerIO ==
    [dial : {Nil, "dial failed"}, send : {Nil, "send failed"},
     recv : {Nil, "recv failed"}, infohash : {LocalInfohash, "other infohash"}]

\* Torrent.HasConn: _, has = t.conns[a.String()]
HasConn(a) == conns[a] # "absent"

\* Announce: a.String() == t.Net.Addr().String() || t.HasConn(a)
skipCandidateNoSelfCheck(a) == HasConn(a)

skipCandidate(a) == a = LocalAddr \/ HasConn(a)

\* AddPeer writing t.conns[a] = true as soon as the dial succeeded
AddPeerMarksAfterDial(io) ==
    IF io.dial = Nil
    THEN IF io.send = Nil /\ io.recv = Nil /\ io.infohash = LocalInfohash
         THEN [err |-> Nil, opened |-> TRUE, closed |-> FALSE,
               mark |-> TRUE, at |-> "admitted"]
         ELSE [err |-> IF io.send # Nil THEN io.send ELSE io.recv,
               opened |-> TRUE, closed |-> TRUE, mark |-> TRUE,
               at |-> IF io.send # Nil THEN "send"
                      ELSE IF io.recv # Nil THEN "recv" ELSE "infohash"]
    ELSE [err |-> io.dial, opened |-> FALSE, closed |-> FALSE,
          mark |-> FALSE, at |-> "dial"]

\* Torrent.AddPeer as a function of what the network does: the error it
\* returns, whether it opened and closed a raw connection, whether it set
\* t.conns[a] = true, and the stage it reached
AddPeer(io) ==
    IF io.dial = Nil
    THEN IF io.send = Nil
         THEN IF io.recv = Nil
              THEN IF io.infohash = LocalInfohash
                   THEN [err |-> Nil, opened |-> TRUE, closed |-> FALSE,
                         mark |-> TRUE, at |-> "admitted"]
                   ELSE [err |-> io.recv, opened |-> TRUE, closed |-> TRUE,
                         mark |-> FALSE, at |-> "infohash"]
              ELSE [err |-> io.recv, opened |-> TRUE, closed |-> TRUE,
                    mark |-> FALSE, at |-> "recv"]
         ELSE [err |-> io.send, opened |-> TRUE, closed |-> TRUE,
               mark |-> FALSE, at |-> "send"]
    ELSE [err |-> io.dial, opened |-> FALSE, closed |-> FALSE,
          mark |-> FALSE, at |-> "dial"]

\* PersistPeer after an AddPeer returned err, checking triesLeft too late
\* (before the decrement)
persistAfterLate(triesLeft, err) ==
    IF err # Nil
    THEN IF triesLeft = 0
         THEN [triesLeft |-> triesLeft, pc |-> "exit", how |-> "exhausted"]
         ELSE [triesLeft |-> triesLeft - 1, pc |-> "loop", how |-> "running"]
    ELSE [triesLeft |-> triesLeft, pc |-> "exit", how |-> "returned nil"]

\* PersistPeer after an AddPeer returned err:
\* if err != nil { triesLeft-- } else { return }; if triesLeft == 0 { return }
persistAfter(triesLeft, err) ==
    IF err # Nil
    THEN IF triesLeft - 1 = 0
         THEN [triesLeft |-> triesLeft - 1, pc |-> "exit", how |-> "exhausted"]
         ELSE [triesLeft |-> triesLeft - 1, pc |-> "loop", how |-> "running"]
    ELSE [triesLeft |-> triesLeft, pc |-> "exit", how |-> "returned nil"]

\* go t.PersistPeer(a, p.ID): a new task at the head of its loop
NewPersist(a) ==
    [addr |-> a, triesLeft |-> MaxTries, pc |-> "loop", attempts |-> 0,
     how |-> "running"]

IdleAnnounce == [pc |-> "idle", k |-> 0, a |-> LocalAddr]

\* pollAnnounce, one tick: go t.Announce(tr, "") for every tracker whose
\* ShouldAnnounce() is true
PollAnnounce ==
    /\ \E due \in (SUBSET Trackers) \ {{}} :
        /\ \A tr \in due : ann[tr].pc = "idle"
        /\ ann' = [tr \in Trackers |->
                    IF tr \in due THEN [IdleAnnounce EXCEPT !.pc = "call"]
                    ELSE ann[tr]]
    /\ UNCHANGED <<conns, completed, pp, seen>>
    /\ UNCHANGED <<pieceVars, ghostVars, concVars, eventVars>>

\* StartAnnouncing, StopAnnouncing: t.Announce(tr, event) called for one
\* tracker after another by one task, no other Announce running
SerialAnnounce ==
    /\ \A tr \in Trackers : ann[tr].pc = "idle"
    /\ \E tr \in Trackers : ann' = [ann EXCEPT ![tr].pc = "call"]
    /\ UNCHANGED <<conns, completed, pp, seen>>
    /\ UNCHANGED <<pieceVars, ghostVars, concVars, eventVars>>

\* Announce: resp, err := tr.Announce(req)
AnnounceCall(tr) ==
    /\ ann[tr].pc = "call"
    /\ \E err \in {Nil, "announce failed"} :
        ann' = [ann EXCEPT ![tr] =
                    IF err = Nil THEN [IdleAnnounce EXCEPT !.pc = "peers"]
                    ELSE IdleAnnounce]
    /\ UNCHANGED <<conns, completed, pp, seen>>
    /\ UNCHANGED <<pieceVars, ghostVars, concVars, eventVars>>

\* Announce: one turn of for _, p := range resp.Peers, up to the test
\* of line 185; the response is revealed one candidate at a time
AnnouncePeer(tr) ==
    /\ ann[tr].pc = "peers"
    /\ \/ /\ ann' = [ann EXCEPT ![tr] = IdleAnnounce]
          /\ UNCHANGED seen
       \/ /\ ann[tr].k < MaxResp
          /\ \E p \in Addrs \cup {Unresolved} :
              IF p = Unresolved
              THEN /\ ann' = [ann EXCEPT ![tr].k = @ + 1]
                   /\ UNCHANGED seen
              ELSE /\ seen' = seen \cup {p}
                   /\ ann' = [ann EXCEPT ![tr] =
                        IF skipCandidate(p)
                        THEN [@ EXCEPT !.k = @ + 1]
                        ELSE [@ EXCEPT !.pc = "reserve", !.a = p]]
    /\ UNCHANGED <<conns, completed, pp>>
    /\ UNCHANGED <<pieceVars, ghostVars, concVars, eventVars>>

\* Announce: t.conns[a.String()] = false under t.cmtx; go t.PersistPeer(a, p.ID)
AnnounceReserve(tr) ==
    /\ ann[tr].pc = "reserve"
    /\ Len(pp) < MaxPersist
    /\ conns' = [conns EXCEPT ![ann[tr].a] = "false"]
    /\ pp' = Append(pp, NewPersist(ann[tr].a))
    /\ ann' = [ann EXCEPT ![tr] = [pc |-> "peers", k |-> @.k + 1, a |-> LocalAddr]]
    /\ UNCHANGED <<completed, seen>>
    /\ UNCHANGED <<pieceVars, ghostVars, concVars, eventVars>>

\* PersistPeer: for !t.Done()
PersistLoop(i) ==
    /\ i \in DOMAIN pp
    /\ pp[i].pc = "loop"
    /\ pp' = [pp EXCEPT ![i] =
                IF completed THEN [@ EXCEPT !.pc = "exit", !.how = "done"]
                ELSE [@ EXCEPT !.pc = "add"]]
    /\ UNCHANGED <<conns, completed, ann, seen>>
    /\ UNCHANGED <<pieceVars, ghostVars, concVars, eventVars>>

\* PersistPeer: err := t.AddPeer(a, id) and the rest of the loop body
CallAddPeer(i, io) ==
    /\ i \in DOMAIN pp
    /\ pp[i].pc = "add"
    /\ pp[i].attempts < AttemptCap
    /\ LET r == AddPeer(io)
           n == persistAfter(pp[i].triesLeft, r.err)
       IN  /\ conns' = IF r.mark THEN [conns EXCEPT ![pp[i].addr] = "true"]
                        ELSE conns
           /\ pp' = [pp EXCEPT ![i] =
                        [addr |-> @.addr, triesLeft |-> n.triesLeft,
                         pc |-> n.pc, attempts |-> @.attempts + 1,
                         how |-> n.how]]
    /\ UNCHANGED <<completed, ann, seen>>
    /\ UNCHANGED <<pieceVars, concVars, eventVars>>

PersistAddPeer(i) ==
    \E io \in AddPeerIO :
        /\ CallAddPeer(i, io)
        /\ UNCHANGED ghostVars

\* the same step, remembering what AddPeer did
SerialAddPeer(i) ==
    \E io \in AddPeerIO :
        /\ CallAddPeer(i, io)
        /\ lastAdd' = [task |-> i, res |-> AddPeer(io)]
        /\ UNCHANGED <<arg, written, covered, lastCancel, reclaim>>

\* the download completes: t.Bitfield().Completed() turns true
Complete ==
    /\ ~completed
    /\ completed' = TRUE
    /\ UNCHANGED <<conns, ann, pp, seen>>
    /\ UNCHANGED <<pieceVars, ghostVars, concVars, eventVars>>

InitTorrent ==
    /\ FreshPiece(0)
    /\ NoGhost /\ NoConc /\ NoTorrent /\ NoEvents

NextTorrent ==
    \/ PollAnnounce
    \/ \E tr \in Trackers : AnnounceCall(tr)
    \/ \E tr \in Trackers : AnnouncePeer(tr)
    \/ \E tr \in Trackers : AnnounceReserve(tr)
    \/ \E i \in PersistIds : PersistLoop(i)
    \/ \E i \in PersistIds : PersistAddPeer(i)
    \/ Complete

SpecTorrent == InitTorrent /\ [][NextTorrent]_vars

(***************************************************************************)
(* SpecSerial: Announce calls made one after another (StartAnnouncing,     *)
(* StopAnnouncing, or one tracker due per tick) and the PersistPeer tasks  *)
(* they start.  FairSerial adds that every started PersistPeer task keeps  *)
(* running: the scheduler runs each goroutine, and Dial, Send and Recv     *)
(* return.                                                                 *)
(***************************************************************************)
NextSerial ==
    \/ SerialAnnounce
    \/ \E tr \in Trackers : AnnounceCall(tr)
    \/ \E tr \in Trackers : AnnouncePeer(tr)
    \/ \E tr \in Trackers : AnnounceReserve(tr)
    \/ \E i \in PersistIds : PersistLoop(i)
    \/ \E i \in PersistIds : SerialAddPeer(i)
    \/ Complete

SpecSerial == InitTorrent /\ [][NextSerial]_vars

FairSerial ==
    /\ SpecSerial
    /\ \A i \in PersistIds : WF_vars(PersistLoop(i))
    /\ \A i \in PersistIds : WF_vars(SerialAddPeer(i))

(***************************************************************************)
(* Claims about Torrent.                                                   *)
(***************************************************************************)
\* the PersistPeer tasks started for address a
Started(a) == {i \in DOMAIN pp : pp[i].addr = a}
\* the addresses some AddPeer call has dialed
Dialed == {pp[i].addr : i \in {j \in DOMAIN pp : pp[j].attempts > 0}}

\* C7: across all Announce calls of the torrent, also concurrent ones, at
\* most one PersistPeer task is ever started for an address.
C7_OnePersistPeerPerAddress ==
    \A a \in Addrs : Cardinality(Started(a)) <= 1

\* C8: a candidate equal to the local address is never reserved in the
\* ConnectionSet, never handed to PersistPeer and never dialed.
C8_NeverSelfConnect ==
    /\ conns[LocalAddr] = "absent"
    /\ Started(LocalAddr) = {}
    /\ LocalAddr \notin Dialed
    /\ \A tr \in Trackers : ann[tr].pc = "reserve" => ann[tr].a # LocalAddr

\* a tracker has returned the local address, and a remote one that was dialed
C8_Witness ==
    /\ LocalAddr \in seen
    /\ Dialed # {}

\* C9: when dial, send and receive succeed but the infohash differs, AddPeer
\* closes the connection, returns an error and does not mark the address
\* active, and PersistPeer counts the attempt as a failure.
C9_InfohashMismatchIsAnError ==
    lastAdd.res.at = "infohash" =>
        /\ lastAdd.res.closed
        /\ ~lastAdd.res.mark
        /\ lastAdd.res.err # Nil
        /\ pp[lastAdd.task].triesLeft = MaxTries - pp[lastAdd.task].attempts

\* what C10 says of one PersistPeer task at every moment
PersistBounded(t) ==
    /\ t.attempts <= MaxTries
    /\ t.pc # "exit" =>
            t.attempts < MaxTries /\ t.triesLeft = MaxTries - t.attempts
    /\ t.pc = "exit" =>
            \/ t.how = "returned nil"
                    /\ t.triesLeft = MaxTries - (t.attempts - 1)
            \/ t.how = "done" /\ completed
                    /\ t.triesLeft = MaxTries - t.attempts
            \/ t.how = "exhausted" /\ t.attempts = MaxTries
                    /\ t.triesLeft = 0 /\ conns[t.addr] # "true"

AddPeerReturns(i) == pp'[i].attempts = pp[i].attempts + 1

\* C18: an AddPeer that fails at the dial, the handshake send or the
\* handshake receive returns a non-nil error, closes the raw connection
\* if one was opened and leaves the ConnectionSet unchanged; an address
\* turns true only by an AddPeer that completed the handshake with a
\* matching infohash.
C18_FailedAddPeerFrame ==
    [][ /\ \A i \in DOMAIN pp :
            (AddPeerReturns(i) /\ lastAdd'.res.at \in {"dial", "send", "recv"}) =>
                /\ lastAdd'.task = i
                /\ lastAdd'.res.err # Nil
                /\ lastAdd'.res.closed = lastAdd'.res.opened
                /\ conns' = conns
        /\ \A a \in Addrs :
            (conns'[a] = "true" /\ conns[a] # "true") =>
                \E i \in DOMAIN pp :
                    /\ AddPeerReturns(i)
                    /\ pp[i].addr = a
                    /\ lastAdd'.res.at = "admitted" ]_vars

\* an AddPeer failed at the handshake receive: the connection it opened is
\* closed and the address is still reserved
C18_Witness ==
    /\ lastAdd.task \in DOMAIN pp
    /\ lastAdd.res.at = "recv"
    /\ lastAdd.res.opened /\ lastAdd.res.closed
    /\ lastAdd.res.err # Nil
    /\ conns[pp[lastAdd.task].addr] = "false"

\* C19: for every length of the status array, also one that is not a
\* multiple of the block size, nextOffset stays inside the array when it
\* marks the stride it claims.
C19_NextOffsetStaysInArray ==
    fault # "nextOffset: index out of range"

\* C20: under any interleaving of Announce, PersistPeer and AddPeer, a
\* ConnectionSet entry that is true is never set back to false, and no
\* entry is ever removed.
C20_TrueNeverReserved ==
    [][ \A a \in Addrs :
            /\ conns[a] = "true" => conns'[a] = "true"
            /\ conns[a] # "absent" => conns'[a] # "absent" ]_vars

(***************************************************************************)
(* Torrent.Run, onPieceRequest and Close around the channel t.piece.       *)
(*                                                                         *)
(* A channel send, receive or close is one step of the Go runtime.  The    *)
(* field t.piece is read and written without a lock: onPieceRequest reads  *)
(* it for the nil test and again for the send, and between the two reads   *)
(* Close may have stored nil, so the send statement works on either the    *)
(* channel it tested or on nil.  A send or a receive on a nil channel      *)
(* blocks forever; a send on a closed channel, also one that was blocked   *)
(* when the channel was closed, panics.                                    *)
(***************************************************************************)
\* binary.BigEndian.PutUint32 writing the low byte first
LittleEndian32(a) == <<a[2] % 256, a[2] \div 256, a[1] % 256, a[1] \div 256>>

\* binary.BigEndian.PutUint32(d, v): the four bytes of v, high byte first
BigEndian32(a) == <<a[1] \div 256, a[1] % 256, a[2] \div 256, a[2] % 256>>

\* the piece requests peers send: the request of a held region, a request
\* whose index and begin use all four bytes, a zero-length request and a
\* request for a piece storage does not hold
RequestInputs ==
    { [Index |-> U32(3), Begin |-> U32(0), Length |-> U32(4)],
      [Index |-> <<258, 772>>, Begin |-> <<1286, 1800>>, Length |-> U32(1)],
      [Index |-> U32(3), Begin |-> U32(0), Length |-> U32(0)],
      [Index |-> U32(2), Begin |-> U32(0), Length |-> U32(4)] }

\* the pieces storage holds while Run serves requests
HeldAtStart == {U32(3), <<258, 772>>}

\* the byte storage keeps at an offset of a piece
StoredByte(offset) == (offset + 1) % 256

\* t.st.GetPiece(r): the requested region, or nil when storage does not
\* hold the piece
GetPiece(h, r) ==
    IF r.Index \in h
    THEN [found |-> TRUE, Index |-> r.Index, Begin |-> r.Begin,
          Data |-> [i \in 1 .. r.Length[2] |-> StoredByte(r.Begin[2] + i - 1)]]
    ELSE [found |-> FALSE, Index |-> U32(0), Begin |-> U32(0), Data |-> <<>>]

\* the payload with the index written low byte first
piecePayloadLittleEndian(p) ==
    LittleEndian32(p.Index) \o BigEndian32(p.Begin) \o p.Data

\* d := make([]byte, 8+dl); PutUint32(d, p.Index); PutUint32(d[4:], p.Begin);
\* copy(d[8:], p.Data[:])
piecePayload(p) == BigEndian32(p.Index) \o BigEndian32(p.Begin) \o p.Data

\* the zero-length branch answering on the connection instead of closing it
serveZeroAnswers(ev) ==
    [got |-> FALSE, closed |-> {},
     sent |-> <<[c |-> ev.c, id |-> "piece", payload |-> <<>>]>>]

\* Run, r.Length == 0: ev.c.Close()
serveZero(ev) == [got |-> FALSE, closed |-> {ev.c}, sent |-> <<>>]

\* the not-found branch leaving the connection open
serveMissingKeepsOpen(ev) == [got |-> TRUE, closed |-> {}, sent |-> <<>>]

\* Run, p == nil: ev.c.Close()
serveMissing(ev) == [got |-> TRUE, closed |-> {ev.c}, sent |-> <<>>]

\* Run, p != nil: ev.c.Send(common.NewWireMessage(common.Piece, d))
serveFound(ev, p) ==
    [got |-> TRUE, closed |-> {},
     sent |-> <<[c |-> ev.c, id |-> "piece", payload |-> piecePayload(p)]>>]

\* the body of Run's loop for one event: whether storage was queried, the
\* connections closed and the messages sent, in order
service(h, ev) ==
    IF ~IsZero32(ev.r.Length)
    THEN LET p == GetPiece(h, ev.r)
         IN  IF ~p.found THEN serveMissing(ev) ELSE serveFound(ev, p)
    ELSE serveZero(ev)

\* a send completes at once: the buffer has room, or the receiver is
\* waiting on the empty channel; senders already blocked go first
CanSend ==
    /\ chn.sendq = <<>>
    /\ \/ Len(chn.buf) < chn.cap
       \/ run.pc = "waiting" /\ chn.buf = <<>>

\* onPieceRequest: if t.piece != nil
PeerCheck(c) ==
    /\ fault = "none"
    /\ peer[c].pc = "idle"
    /\ nreq < MaxEvents
    /\ nreq' = nreq + 1
    /\ \E r \in RequestInputs :
        peer' = [peer EXCEPT ![c] =
                    IF piece # "nil"
                    THEN [pc |-> "checked", ev |-> [n |-> nreq + 1, c |-> c, r |-> r]]
                    ELSE [pc |-> "idle", ev |-> NoEvent]]
    /\ UNCHANGED <<piece, chn, run, closer, accepted, serviced, last>>
    /\ UNCHANGED <<pieceVars, ghostVars, concVars, torrentVars, storeVars>>

\* onPieceRequest: t.piece <- pieceEvent{c, req}, on the channel the nil
\* test read or on the value t.piece holds now
PeerSend(c) ==
    /\ fault = "none"
    /\ peer[c].pc = "checked"
    /\ \E via \in {"chan", piece} :
        IF via = "nil"
        THEN /\ peer' = [peer EXCEPT ![c].pc = "blocked on nil"]
             /\ UNCHANGED <<chn, accepted, fault>>
        ELSE IF chn.closed
        THEN /\ fault' = "send on closed channel"
             /\ UNCHANGED <<chn, accepted, peer>>
        ELSE IF CanSend
        THEN /\ chn' = [chn EXCEPT !.buf = Append(@, peer[c].ev)]
             /\ accepted' = Append(accepted, peer[c].ev.n)
             /\ peer' = [peer EXCEPT ![c] = [pc |-> "idle", ev |-> NoEvent]]
             /\ UNCHANGED fault
        ELSE /\ chn' = [chn EXCEPT !.sendq = Append(@, c)]
             /\ peer' = [peer EXCEPT ![c].pc = "blocked"]
             /\ UNCHANGED <<accepted, fault>>
    /\ UNCHANGED <<piece, run, closer, nreq, serviced, last>>
    /\ UNCHANGED <<progress, data, op, ret>>
    /\ UNCHANGED <<ghostVars, concVars, torrentVars, storeVars>>

\* Run: the channel operand of ev, ok := <-t.piece
RunRecv ==
    /\ fault = "none"
    /\ run.pc = "loop"
    /\ run' = [run EXCEPT !.pc = IF piece = "nil" THEN "blocked on nil"
                                 ELSE "waiting"]
    /\ UNCHANGED <<piece, chn, peer, closer, nreq, accepted, serviced, last>>
    /\ UNCHANGED <<pieceVars, ghostVars, concVars, torrentVars, storeVars>>

\* Run: the receive completes, with a buffered event (the first blocked
\* sender then moves its event into the buffer), with the event of the
\* first blocked sender, or with ok = false on the closed, empty channel
RunTake ==
    /\ fault = "none"
    /\ run.pc = "waiting"
    /\ IF chn.buf # <<>>
       THEN /\ run' = [pc |-> "serve", ev |-> Head(chn.buf)]
            /\ IF chn.sendq # <<>>
               THEN LET c == Head(chn.sendq)
                    IN  /\ chn' = [chn EXCEPT
                                    !.buf = Append(Tail(@), peer[c].ev),
                                    !.sendq = Tail(@)]
                        /\ accepted' = Append(accepted, peer[c].ev.n)
                        /\ peer' = [peer EXCEPT ![c] =
                                        [pc |-> "idle", ev |-> NoEvent]]
               ELSE /\ chn' = [chn EXCEPT !.buf = Tail(@)]
                    /\ UNCHANGED <<accepted, peer>>
       ELSE IF chn.sendq # <<>>
       THEN LET c == Head(chn.sendq)
            IN  /\ run' = [pc |-> "serve", ev |-> peer[c].ev]
                /\ chn' = [chn EXCEPT !.sendq = Tail(@)]
                /\ accepted' = Append(accepted, peer[c].ev.n)
                /\ peer' = [peer EXCEPT ![c] = [pc |-> "idle", ev |-> NoEvent]]
       ELSE /\ chn.closed
            /\ run' = [pc |-> "exit", ev |-> NoEvent]
            /\ UNCHANGED <<chn, accepted, peer>>
    /\ UNCHANGED <<piece, closer, nreq, serviced, last>>
    /\ UNCHANGED <<pieceVars, ghostVars, concVars, torrentVars, storeVars>>

\* Run: the rest of the loop body for the event received
RunServe ==
    /\ fault = "none"
    /\ run.pc = "serve"
    /\ LET e == service(held, run.ev)
       IN  last' = [n |-> run.ev.n, c |-> run.ev.c, got |-> e.got,
                    closed |-> e.closed, sent |-> e.sent]
    /\ serviced' = Append(serviced, run.ev.n)
    /\ run' = [pc |-> "loop", ev |-> NoEvent]
    /\ UNCHANGED <<piece, chn, peer, closer, nreq, accepted>>
    /\ UNCHANGED <<pieceVars, ghostVars, concVars, torrentVars, storeVars>>

\* Close: chnl := t.piece; t.piece = nil
CloseNil ==
    /\ fault = "none"
    /\ closer.pc = "idle"
    /\ closer' = [pc |-> "close", chnl |-> piece]
    /\ piece' = "nil"
    /\ UNCHANGED <<chn, peer, run, nreq, accepted, serviced, last>>
    /\ UNCHANGED <<pieceVars, ghostVars, concVars, torrentVars, storeVars>>

\* Close: close(chnl); the senders blocked on the channel panic
CloseChan ==
    /\ fault = "none"
    /\ closer.pc = "close"
    /\ IF closer.chnl = "nil"
       THEN /\ fault' = "close of nil channel"
            /\ UNCHANGED chn
       ELSE /\ chn' = [chn EXCEPT !.closed = TRUE]
            /\ fault' = IF chn.sendq # <<>> THEN "send on closed channel"
                        ELSE fault
    /\ closer' = [closer EXCEPT !.pc = "flush"]
    /\ UNCHANGED <<piece, peer, run, nreq, accepted, serviced, last>>
    /\ UNCHANGED <<progress, data, op, ret>>
    /\ UNCHANGED <<ghostVars, concVars, torrentVars, storeVars>>

\* Close: t.st.Flush()
CloseFlush ==
    /\ fault = "none"
    /\ closer.pc = "flush"
    /\ closer' = [closer EXCEPT !.pc = "done"]
    /\ UNCHANGED <<piece, chn, peer, run, nreq, accepted, serviced, last>>
    /\ UNCHANGED <<pieceVars, ghostVars, concVars, torrentVars, storeVars>>

InitRun ==
    /\ FreshPiece(0)
    /\ NoGhost /\ NoConc /\ NoTorrent
    /\ \E cp \in 0 .. ChanCap : FreshEvents(cp, HeldAtStart)

NextRun ==
    \/ \E c \in Conns : PeerCheck(c)
    \/ \E c \in Conns : PeerSend(c)
    \/ RunRecv
    \/ RunTake
    \/ RunServe
    \/ CloseNil
    \/ CloseChan
    \/ CloseFlush

SpecRun == InitRun /\ [][NextRun]_vars

\* every task runs: the scheduler runs each goroutine that can take a step
FairRun ==
    /\ SpecRun
    /\ WF_vars(RunRecv) /\ WF_vars(RunTake) /\ WF_vars(RunServe)
    /\ WF_vars(CloseChan) /\ WF_vars(CloseFlush)
    /\ \A c \in Conns : WF_vars(PeerSend(c))

(***************************************************************************)
(* Claims about Run, onPieceRequest and Close.                             *)
(***************************************************************************)
\* C11: under every interleaving of Close with onPieceRequest calls, no
\* send is performed on the closed channel or left blocked: a call either
\* enqueues its event before the channel is closed or drops it, and never
\* faults.
C11_NoSendRacesClose ==
    /\ fault # "send on closed channel"
    /\ \A c \in Conns : peer[c].pc # "blocked on nil"

\* C12: once Close has been called, Run eventually terminates (the end of
\* the whole program by a panic is counted as termination too).
C12_RunExitsAfterClose ==
    (closer.pc # "idle") ~> (run.pc = "exit" \/ fault # "none")

\* the step is Run finishing the service of the event it received
Serves == run.pc = "serve" /\ run'.pc # "serve"

\* C13: for an event with requested length zero, Run closes the
\* originating connection, sends nothing, does not query storage, and goes
\* on to the next event.
C13_ZeroLengthClosesPeer ==
    [][ (Serves /\ IsZero32(run.ev.r.Length)) =>
            /\ last'.n = run.ev.n
            /\ last'.closed = {run.ev.c}
            /\ last'.sent = <<>>
            /\ ~last'.got
            /\ run'.pc = "loop" /\ fault' = "none" ]_vars

\* Run closed the connection of a zero-length request and has received
\* the next event
C13_Witness ==
    /\ last.n > 0 /\ ~last.got
    /\ last.closed = {last.c}
    /\ run.pc = "serve" /\ run.ev.n # last.n

\* C14: for an event with non-zero length whose piece storage does not
\* hold, Run closes the originating connection, sends nothing, and goes on
\* to the next event.
C14_MissingPieceClosesPeer ==
    [][ (Serves /\ ~IsZero32(run.ev.r.Length) /\ run.ev.r.Index \notin held) =>
            /\ last'.n = run.ev.n
            /\ last'.closed = {run.ev.c}
            /\ last'.sent = <<>>
            /\ run'.pc = "loop" /\ fault' = "none" ]_vars

\* Run closed the connection that asked for a piece storage does not hold
\* and has received the next event
C14_Witness ==
    /\ last.n > 0 /\ last.got
    /\ last.closed = {last.c} /\ last.sent = <<>>
    /\ run.pc = "serve" /\ run.ev.n # last.n

\* the uint32 that four bytes spell, high byte first
FromBytes(b, at) == <<b[at] * 256 + b[at + 1], b[at + 2] * 256 + b[at + 3]>>

\* C15: for an event with non-zero length whose region storage holds, Run
\* sends exactly one "piece" message, on the originating connection, whose
\* payload is the piece index in 4 bytes big-endian, the begin offset in 4
\* bytes big-endian, then the data, and closes nothing; index 3, begin 0,
\* data 01 02 03 04 gives 00000003 00000000 01020304.
C15_FoundPieceIsSent ==
    [][ (Serves /\ ~IsZero32(run.ev.r.Length) /\ run.ev.r.Index \in held) =>
            /\ last'.closed = {}
            /\ Len(last'.sent) = 1
            /\ LET m == last'.sent[1]
                   r == run.ev.r
               IN  /\ m.c = run.ev.c
                   /\ m.id = "piece"
                   /\ Len(m.payload) = 8 + r.Length[2]
                   /\ \A k \in 1 .. Len(m.payload) : m.payload[k] \in 0 .. 255
                   /\ FromBytes(m.payload, 1) = r.Index
                   /\ FromBytes(m.payload, 5) = r.Begin
                   /\ \A k \in 1 .. r.Length[2] :
                        m.payload[8 + k] = StoredByte(r.Begin[2] + k - 1)
                   /\ (r.Index = U32(3) /\ r.Begin = U32(0) /\ r.Length = U32(4)) =>
                        m.payload = <<0, 0, 0, 3, 0, 0, 0, 0, 1, 2, 3, 4>> ]_vars

\* the example response, and before it a response whose index and begin
\* fill all four bytes
C15_Witness ==
    /\ Len(last.sent) = 1
    /\ last.sent[1].payload = <<0, 0, 0, 3, 0, 0, 0, 0, 1, 2, 3, 4>>
    /\ last.closed = {}
    /\ Len(serviced) > 1

\* s is a prefix of t
IsPrefix(s, t) == Len(s) <= Len(t) /\ \A k \in 1 .. Len(s) : s[k] = t[k]

\* C16: every event the channel accepted is serviced by Run exactly once,
\* in the order of acceptance: Run services the accepted events in order,
\* and it has serviced them all when it stops.
C16_AcceptedEventsServicedInOrder ==
    /\ IsPrefix(serviced, accepted)
    /\ run.pc \in {"exit", "blocked on nil"} => serviced = accepted

(***************************************************************************)
(* SpecStore: the PendingSet and storePiece.  One caller makes whole       *)
(* calls of markPieceInProgress, cancelPiece and storePiece; every access  *)
(* to t.pending is under t.pmtx.                                           *)
(***************************************************************************)
\* delete(t.pending, idx)
cancelPiece(pd, idx) == [pd EXCEPT ![idx] = 0]

\* t.pending[idx] = c
markPieceInProgress(pd, idx, c) == [pd EXCEPT ![idx] = c]

\* storePiece returning as soon as PutPiece has failed
storePieceReturnsOnError(pd, h, idx, err) ==
    IF err # Nil
    THEN [pending |-> pd, held |-> h, ops |-> <<"PutPiece">>]
    ELSE [pending |-> cancelPiece(pd, idx), held |-> h \cup {idx},
          ops |-> <<"PutPiece", "Flush">>]

\* storePiece(p), p.Index = idx, with PutPiece returning err:
\* err := t.st.PutPiece(p); (log); t.cancelPiece(p.Index); t.st.Flush()
storePiece(pd, h, idx, err) ==
    [pending |-> cancelPiece(pd, idx),
     held |-> IF err = Nil THEN h \cup {idx} ELSE h,
     ops |-> <<"PutPiece", "Flush">>]

CallMarkPieceInProgress ==
    /\ \E idx \in PieceIdx, c \in Conns :
        pending' = markPieceInProgress(pending, idx, c)
    /\ op' = "markPieceInProgress"
    /\ UNCHANGED <<held, stlog, runVars>>
    /\ UNCHANGED <<progress, data, fault, ret>>
    /\ UNCHANGED <<ghostVars, concVars, torrentVars>>

CallCancelPiece ==
    /\ \E idx \in PieceIdx : pending' = cancelPiece(pending, idx)
    /\ op' = "cancelPiece"
    /\ UNCHANGED <<held, stlog, runVars>>
    /\ UNCHANGED <<progress, data, fault, ret>>
    /\ UNCHANGED <<ghostVars, concVars, torrentVars>>

CallStorePiece ==
    /\ \E idx \in PieceIdx, err \in {Nil, "put failed"} :
        LET r == storePiece(pending, held, idx, err)
        IN  /\ pending' = r.pending
            /\ held' = r.held
            /\ stlog' = [idx |-> idx, err |-> err, was |-> pending[idx],
                         ops |-> r.ops]
    /\ op' = "storePiece"
    /\ UNCHANGED runVars
    /\ UNCHANGED <<progress, data, fault, ret>>
    /\ UNCHANGED <<ghostVars, concVars, torrentVars>>

InitStore == InitTorrent

NextStore == CallMarkPieceInProgress \/ CallCancelPiece \/ CallStorePiece

SpecStore == InitStore /\ [][NextStore]_vars

\* C17: storePiece(p) leaves p.Index absent from the PendingSet and
\* flushes storage after the PutPiece, whether PutPiece succeeded or
\* returned an error, and changes no other PendingSet entry.
C17_StorePieceClearsAndFlushes ==
    [][ op' = "storePiece" =>
            /\ pending'[stlog'.idx] = 0
            /\ \A j \in PieceIdx \ {stlog'.idx} : pending'[j] = pending[j]
            /\ Len(stlog'.ops) > 1
            /\ stlog'.ops[1] = "PutPiece"
            /\ stlog'.ops[Len(stlog'.ops)] = "Flush" ]_vars

\* a storePiece whose PutPiece failed removed a pending piece and
\* flushed, while another piece stayed pending
C17_Witness ==
    /\ op = "storePiece"
    /\ stlog.err # Nil
    /\ stlog.was # 0
    /\ pending[stlog.idx] = 0
    /\ stlog.idx \notin held
    /\ \E j \in PieceIdx : pending[j] # 0
    /\ stlog.ops = <<"PutPiece", "Flush">>
====
